---------------------------- MODULE Spec2Model ----------------------------
(***************************************************************************)
(* Battle simulation of src/app.py: BattleAgent and BattleModel on a mesa  *)
(* MultiGrid (torus) driven by a mesa SimultaneousActivation scheduler,    *)
(* and the host loop that calls model.step() and records snapshots.        *)
(*                                                                         *)
(* The mesa calls are modelled at their call sites in app.py with the      *)
(* behaviour mesa 1.x/2.x gives them:                                      *)
(*   MultiGrid.place_agent   appends the agent to the cell's list unless   *)
(*                           it is already listed there, and sets          *)
(*                           agent.pos;                                    *)
(*   MultiGrid.remove_agent  removes the agent from the list of the cell   *)
(*                           agent.pos and sets agent.pos to None;         *)
(*   MultiGrid.move_agent    remove_agent followed by place_agent;         *)
(*   get_neighborhood        the wrapped Moore neighbourhood, no centre;   *)
(*   get_cell_list_contents  a copy of the cell's list;                    *)
(*   SimultaneousActivation.step  copies the keys of the agent dict, calls *)
(*                           step() on self._agents[key] for each key (a   *)
(*                           key removed meanwhile raises), then advance() *)
(*                           (a no-op here) on the keys that remain.       *)
(* An agent removed before its key is served in the same step() thus makes *)
(* the call end by an exception, with the grid and the schedule as the     *)
(* battles left them.                                                      *)
(* BattleAgent.random_pos is called at line 16 and defined nowhere in the  *)
(* file; it is modelled as a draw of any cell of the grid.                 *)
(* The module-level random and self.random are seeded by nothing in the    *)
(* file: every draw is a free choice.                                      *)
(***************************************************************************)
EXTENDS Integers, Sequences, FiniteSets, TLC

VARIABLES
    width, height,      \* grid.width, grid.height (BattleModel.__init__ parameters)
    team, strength, health,  \* per agent: BattleAgent.team / .strength / .health
    x, y,               \* per agent: BattleAgent.x / .y (assigned at line 16 only)
    pos,                \* per agent: agent.pos, maintained by the grid; None when off-grid
    grid,               \* cell -> list of the agents in it (MultiGrid content)
    schedule,           \* keys of schedule._agents, in insertion order
    pc,                 \* where the model is: "idle", "step", "battle", "raised"
    agent_keys, k,      \* SimultaneousActivation.step: the copied keys, the index reached
    cellmates, j,       \* BattleAgent.step: the copied cell content, the index reached
    host,               \* the run loop: "none" (no driver), "loop", "called", "done"
    steps, i,           \* the run loop: its bound and its counter
    all_positions       \* the run loop: the recorded snapshots

vars == <<width, height, team, strength, health, x, y, pos, grid, schedule,
          pc, agent_keys, k, cellmates, j, host, steps, i, all_positions>>

modelVars == <<width, height, team, strength, health, x, y, pos, grid, schedule,
               pc, agent_keys, k, cellmates, j>>

hostVars == <<host, steps, i, all_positions>>

-----------------------------------------------------------------------------
(* Bounds of the model and constants of the program *)

NumAgents == 3          \* N: the number of agents created
MaxWidth == 3           \* the grid is 1 or MaxWidth cells wide
MaxHeight == 1          \* and 1 or MaxHeight cells high
MaxSteps == 2           \* the run loop's `steps` is drawn from 1..MaxSteps
DrawWidth == 2          \* how many values of strength and of health are drawn

MinStrength == 1        \* random.randint(1, 10)
MaxStrength == 10
MinHealth == 5          \* random.randint(5, 20)
MaxHealth == 20
move_distance == 1      \* the slider's default

teams == {"Red", "Blue"}

None == <<>>

Ids == 0 .. NumAgents - 1

\* The draws the model makes: the values where strength and health meet.
StrengthDraws == {s \in MinStrength .. MaxStrength : s >= MinHealth /\ s < MinHealth + DrawWidth}
HealthDraws == {h \in MinHealth .. MaxHealth : h < MinHealth + DrawWidth}

Cells(w, h) == (0 .. w - 1) \X (0 .. h - 1)


-----------------------------------------------------------------------------
(* The grid (mesa MultiGrid, torus=True) *)

InList(a, l) == \E n \in 1 .. Len(l) : l[n] = a

\* list.remove(a): the list without its first a
RemoveFirst(l, a) ==
    LET first == CHOOSE n \in 1 .. Len(l) : l[n] = a /\ \A m \in 1 .. n - 1 : l[m] # a
    IN  IF InList(a, l)
        THEN [n \in 1 .. Len(l) - 1 |-> IF n < first THEN l[n] ELSE l[n + 1]]
        ELSE l

Min(a, b) == IF a <= b THEN a ELSE b

\* A space is the pair the grid calls read and write: the cells' lists and the
\* agents' pos attributes.
place_agent_always(sp, a, c) ==
    [grid |-> [sp.grid EXCEPT ![c] = Append(@, a)],
     pos  |-> [sp.pos EXCEPT ![a] = c]]

\* grid.place_agent(agent, pos)
place_agent(sp, a, c) ==
    IF sp.pos[a] = None \/ ~InList(a, sp.grid[c])
    THEN [grid |-> [sp.grid EXCEPT ![c] = Append(@, a)],
          pos  |-> [sp.pos EXCEPT ![a] = c]]
    ELSE sp

remove_agent_keep_list(sp, a) ==
    [grid |-> sp.grid, pos |-> [sp.pos EXCEPT ![a] = None]]

\* grid.remove_agent(agent)
remove_agent(sp, a) ==
    [grid |-> [sp.grid EXCEPT ![sp.pos[a]] = RemoveFirst(@, a)],
     pos  |-> [sp.pos EXCEPT ![a] = None]]

\* grid.torus_adj(pos)
torus_adj(c, w, h) == <<c[1] % w, c[2] % h>>

\* grid.move_agent(agent, pos)
move_agent(sp, a, c, w, h) == place_agent(remove_agent(sp, a), a, torus_adj(c, w, h))

\* grid.get_neighborhood(pos, moore=True, include_center=False, radius=radius)
get_neighborhood(c, radius, w, h) ==
    LET x_radius == Min(radius, w \div 2)
        y_radius == Min(radius, h \div 2)
        kx == IF x_radius = w \div 2 /\ w % 2 = 0 THEN 1 ELSE 0
        ky == IF y_radius = h \div 2 /\ h % 2 = 0 THEN 1 ELSE 0
    IN  { <<(c[1] + dx) % w, (c[2] + dy) % h>> :
            dx \in (0 - x_radius) .. (x_radius - kx),
            dy \in (0 - y_radius) .. (y_radius - ky) } \ {c}

\* grid.get_cell_list_contents([pos])
get_cell_list_contents(g, c) == g[c]

-----------------------------------------------------------------------------
(* The scheduler's agent dict *)

\* schedule.add(agent)
schedule_add(s, a) == Append(s, a)

\* A removal that rebuilds the dict from every agent ever added.
schedule_remove_rebuild(s, a) ==
    SelectSeq([n \in 1 .. NumAgents |-> n - 1], LAMBDA e : e # a)

\* schedule.remove(agent)
schedule_remove(s, a) == SelectSeq(s, LAMBDA e : e # a)

Live == {schedule[n] : n \in 1 .. Len(schedule)}

-----------------------------------------------------------------------------
(* BattleModel *)

\* count_teams()
count_teams == Cardinality({team[schedule[n]] : n \in 1 .. Len(schedule)})

\* get_agents_positions()
get_agents_positions == [n \in 1 .. Len(schedule) |->
                            <<x[schedule[n]], y[schedule[n]], team[schedule[n]]>>]

\* BattleModel.__init__, agents a .. NumAgents-1: BattleAgent.__init__ places the
\* agent at (x, y), then the model places it there again.
RECURSIVE CreateAgents(_, _, _, _)
CreateAgents(sp, a, xs, ys) ==
    IF a >= NumAgents THEN sp
    ELSE LET c == <<xs[a], ys[a]>>
         IN  CreateAgents(place_agent(place_agent(sp, a, c), a, c), a + 1, xs, ys)

RECURSIVE AddAgents(_, _)
AddAgents(s, a) == IF a >= NumAgents THEN s ELSE AddAgents(schedule_add(s, a), a + 1)

\* The state BattleModel(N, width, height, teams, move_distance) returns.
Constructed ==
    /\ width \in {1, MaxWidth}
    /\ height \in {1, MaxHeight}
    /\ team \in [Ids -> teams]
    /\ strength \in [Ids -> StrengthDraws]
    /\ health \in [Ids -> HealthDraws]
    /\ x \in [Ids -> 0 .. width - 1]
    /\ y \in [Ids -> 0 .. height - 1]
    /\ LET sp == CreateAgents([grid |-> [c \in Cells(width, height) |-> <<>>],
                               pos  |-> [a \in Ids |-> None]], 0, x, y)
       IN  grid = sp.grid /\ pos = sp.pos
    /\ schedule = AddAgents(<<>>, 0)
    /\ pc = "idle"
    /\ agent_keys = <<>> /\ k = 0
    /\ cellmates = <<>> /\ j = 0

Init ==
    /\ Constructed
    /\ host = "none" /\ steps = 0 /\ i = 0 /\ all_positions = <<>>

-----------------------------------------------------------------------------
(* SimultaneousActivation.step, as BattleModel.step calls it *)

\* schedule.step() begins: the keys of the agent dict are copied.
BeginStep ==
    /\ agent_keys' = schedule
    /\ k' = 1
    /\ pc' = "step"
    /\ UNCHANGED <<width, height, team, strength, health, x, y, pos, grid,
                   schedule, cellmates, j>>

\* self._agents[agent_key] for a key that a battle removed since the copy: the
\* lookup raises and step() is left by the exception.
LookupRaises ==
    /\ pc = "step"
    /\ k <= Len(agent_keys)
    /\ agent_keys[k] \notin Live
    /\ pc' = "raised"
    /\ UNCHANGED hostVars
    /\ UNCHANGED <<width, height, team, strength, health, x, y, pos, grid,
                   schedule, agent_keys, k, cellmates, j>>

\* The candidates of BattleAgent.step: the neighbourhood of (self.x, self.y).
possible_moves(a) == get_neighborhood(<<x[a], y[a]>>, move_distance, width, height)

\* BattleAgent.step that only reads: the move is left for advance() to commit,
\* and the cellmates are those of the grid as it stands.
MoveDeferred(a, new_position) ==
    /\ pc = "step"
    /\ k <= Len(agent_keys)
    /\ a = agent_keys[k]
    /\ a \in Live
    /\ new_position \in possible_moves(a)
    /\ cellmates' = get_cell_list_contents(grid, new_position)
    /\ j' = 1
    /\ pc' = "battle"
    /\ UNCHANGED hostVars
    /\ UNCHANGED <<width, height, team, strength, health, x, y, pos, grid, schedule,
                   agent_keys, k>>

\* BattleAgent.step with candidates: the move, and the copy of the new cell's list.
Move(a, new_position) ==
    /\ pc = "step"
    /\ k <= Len(agent_keys)
    /\ a = agent_keys[k]
    /\ a \in Live
    /\ new_position \in possible_moves(a)
    /\ LET sp == move_agent([grid |-> grid, pos |-> pos], a, new_position, width, height)
       IN  /\ grid' = sp.grid
           /\ pos' = sp.pos
           /\ cellmates' = get_cell_list_contents(sp.grid, new_position)
    /\ j' = 1
    /\ pc' = "battle"
    /\ UNCHANGED hostVars
    /\ UNCHANGED <<width, height, team, strength, health, x, y, schedule,
                   agent_keys, k>>

\* BattleAgent.step without candidates: nothing happens.
NoMove ==
    /\ pc = "step"
    /\ k <= Len(agent_keys)
    /\ agent_keys[k] \in Live
    /\ possible_moves(agent_keys[k]) = {}
    /\ k' = k + 1
    /\ UNCHANGED hostVars
    /\ UNCHANGED <<width, height, team, strength, health, x, y, pos, grid,
                   schedule, pc, agent_keys, cellmates, j>>

self == agent_keys[k]
other == cellmates[j]

\* The test of line 31 without its team part.
OpponentAnyTeam(a, o) == o # a

\* `if other != self and other.team != self.team` (line 31)
Opponent(a, o) == o # a /\ team[o] # team[a]

\* The test of line 33 with >= for >.
MoverBeatsOrTies(a, o) == strength[a] >= health[o]

\* The two tests in the other order: the mover wins only if the cellmate's
\* strength is not above the mover's health.
MoverBeatsUnlessBeaten(a, o) == strength[a] > health[o] /\ ~(strength[o] > health[a])

\* `if self.strength > other.health` (line 33)
MoverBeats(a, o) == strength[a] > health[o]

\* The test of line 38 with >= for >.
OtherBeatsOrTies(a, o) == strength[o] >= health[a]

\* `elif other.strength > self.health` (line 38)
OtherBeats(a, o) == strength[o] > health[a]

InBattle == pc = "battle" /\ j <= Len(cellmates)

\* The loop body for a cellmate that is the mover or of its team: no battle.
SkipCellmate ==
    /\ InBattle
    /\ ~Opponent(self, other)
    /\ j' = j + 1
    /\ UNCHANGED hostVars
    /\ UNCHANGED <<width, height, team, strength, health, x, y, pos, grid,
                   schedule, pc, agent_keys, k, cellmates>>

\* Lines 33-36 without line 37: the winner's strength is left as it is.
MoverWinsNoGain ==
    /\ InBattle
    /\ Opponent(self, other)
    /\ MoverBeats(self, other)
    /\ LET sp == remove_agent([grid |-> grid, pos |-> pos], other)
       IN  /\ grid' = sp.grid
           /\ pos' = sp.pos
           /\ schedule' = schedule_remove(schedule, other)
    /\ j' = j + 1
    /\ UNCHANGED hostVars
    /\ UNCHANGED <<width, height, team, strength, health, x, y, pc, agent_keys, k, cellmates>>

\* Lines 33-37 followed by a break: the mover stops at its first win.
MoverWinsThenBreak ==
    /\ InBattle
    /\ Opponent(self, other)
    /\ MoverBeats(self, other)
    /\ IF pos[other] # None
       THEN LET sp == remove_agent([grid |-> grid, pos |-> pos], other)
            IN  /\ grid' = sp.grid
                /\ pos' = sp.pos
                /\ schedule' = schedule_remove(schedule, other)
       ELSE UNCHANGED <<grid, pos, schedule>>
    /\ strength' = [strength EXCEPT ![self] = @ + 1]
    /\ k' = k + 1
    /\ pc' = "step"
    /\ UNCHANGED hostVars
    /\ UNCHANGED <<width, height, team, health, x, y, agent_keys, cellmates, j>>

\* Lines 33-37: the mover beats the cellmate.
MoverWins ==
    /\ InBattle
    /\ Opponent(self, other)
    /\ MoverBeats(self, other)
    /\ IF pos[other] # None
       THEN LET sp == remove_agent([grid |-> grid, pos |-> pos], other)
            IN  /\ grid' = sp.grid
                /\ pos' = sp.pos
                /\ schedule' = schedule_remove(schedule, other)
       ELSE UNCHANGED <<grid, pos, schedule>>
    /\ strength' = [strength EXCEPT ![self] = @ + 1]
    /\ j' = j + 1
    /\ UNCHANGED hostVars
    /\ UNCHANGED <<width, height, team, health, x, y, pc, agent_keys, k, cellmates>>

\* Lines 38-42 without the break of line 43: the loop goes on for the mover
\* that was removed.
MoverLosesNoBreak ==
    /\ InBattle
    /\ Opponent(self, other)
    /\ ~MoverBeats(self, other)
    /\ OtherBeats(self, other)
    /\ IF pos[self] # None
       THEN LET sp == remove_agent([grid |-> grid, pos |-> pos], self)
            IN  /\ grid' = sp.grid
                /\ pos' = sp.pos
                /\ schedule' = schedule_remove(schedule, self)
       ELSE UNCHANGED <<grid, pos, schedule>>
    /\ strength' = [strength EXCEPT ![other] = @ + 1]
    /\ j' = j + 1
    /\ UNCHANGED hostVars
    /\ UNCHANGED <<width, height, team, health, x, y, pc, agent_keys, k, cellmates>>

\* Lines 38-43: the cellmate beats the mover, and the loop is left.
MoverLoses ==
    /\ InBattle
    /\ Opponent(self, other)
    /\ ~MoverBeats(self, other)
    /\ OtherBeats(self, other)
    /\ IF pos[self] # None
       THEN LET sp == remove_agent([grid |-> grid, pos |-> pos], self)
            IN  /\ grid' = sp.grid
                /\ pos' = sp.pos
                /\ schedule' = schedule_remove(schedule, self)
       ELSE UNCHANGED <<grid, pos, schedule>>
    /\ strength' = [strength EXCEPT ![other] = @ + 1]
    /\ k' = k + 1
    /\ pc' = "step"
    /\ UNCHANGED hostVars
    /\ UNCHANGED <<width, height, team, health, x, y, agent_keys, cellmates, j>>

\* A stalemate that wears the cellmate down: its health falls by 1.
StalemateDamages ==
    /\ InBattle
    /\ Opponent(self, other)
    /\ ~MoverBeats(self, other)
    /\ ~OtherBeats(self, other)
    /\ health' = [health EXCEPT ![other] = @ - 1]
    /\ j' = j + 1
    /\ UNCHANGED hostVars
    /\ UNCHANGED <<width, height, team, strength, x, y, pos, grid,
                   schedule, pc, agent_keys, k, cellmates>>

\* Neither comparison holds: the loop goes on.
Stalemate ==
    /\ InBattle
    /\ Opponent(self, other)
    /\ ~MoverBeats(self, other)
    /\ ~OtherBeats(self, other)
    /\ j' = j + 1
    /\ UNCHANGED hostVars
    /\ UNCHANGED <<width, height, team, strength, health, x, y, pos, grid,
                   schedule, pc, agent_keys, k, cellmates>>

\* The loop over the cellmates is exhausted: BattleAgent.step returns.
EndAgentStep ==
    /\ pc = "battle"
    /\ j > Len(cellmates)
    /\ k' = k + 1
    /\ pc' = "step"
    /\ UNCHANGED hostVars
    /\ UNCHANGED <<width, height, team, strength, health, x, y, pos, grid,
                   schedule, agent_keys, cellmates, j>>

\* Every key was served; advance() does nothing; schedule.step() returns.
EndStep ==
    /\ pc = "step"
    /\ k > Len(agent_keys)
    /\ pc' = "idle"
    /\ UNCHANGED hostVars
    /\ UNCHANGED <<width, height, team, strength, health, x, y, pos, grid,
                   schedule, agent_keys, k, cellmates, j>>

-----------------------------------------------------------------------------
(* A caller that calls model.step() whenever the model is idle *)

\* BattleModel.step(), called when no call is running: after the construction,
\* after a call that returned, or after a call that raised (a caller that
\* catches the exception still holds the model).
step ==
    /\ host = "none"
    /\ pc \in {"idle", "raised"}
    /\ BeginStep
    /\ UNCHANGED hostVars

Next ==
    \/ step
    \/ LookupRaises
    \/ \E a \in Ids, c \in Cells(width, height) : Move(a, c)
    \/ NoMove
    \/ SkipCellmate
    \/ MoverWins
    \/ MoverLoses
    \/ Stalemate
    \/ EndAgentStep
    \/ EndStep

Spec == Init /\ [][Next]_vars

\* The constructions the termination claim is about, at their most favourable:
\* at least two teams are represented, and every health is drawn at its
\* minimum, where a battle is won most easily.
FairInit ==
    /\ Init
    /\ count_teams >= 2
    /\ \A a \in Ids : health[a] = MinHealth

\* The same caller, under the scheduling the termination claim assumes: the
\* caller keeps calling step(), a running call keeps running, and an agent that
\* is served again and again takes each of its candidate moves again and again.
FairSpec ==
    /\ FairInit
    /\ [][Next]_vars
    /\ WF_vars(Next)
    /\ \A a \in Ids, c \in Cells(MaxWidth, MaxHeight) : SF_vars(Move(a, c))

-----------------------------------------------------------------------------
(* The run loop of app.py (lines 95-107) *)

HostInit ==
    /\ Constructed
    /\ host = "loop"
    /\ steps \in 1 .. MaxSteps
    /\ i = 0
    /\ all_positions = <<>>

\* `if model.count_teams() <= 1: break`
GameOver ==
    /\ host = "loop"
    /\ i < steps
    /\ count_teams <= 1
    /\ host' = "done"
    /\ UNCHANGED <<steps, i, all_positions>>
    /\ UNCHANGED modelVars

\* The call of line 106 without the test of line 103.
CallStepUnchecked ==
    /\ host = "loop"
    /\ i < steps
    /\ pc = "idle"
    /\ BeginStep
    /\ host' = "called"
    /\ UNCHANGED <<steps, i, all_positions>>

\* `model.step()` is called
CallStep ==
    /\ host = "loop"
    /\ i < steps
    /\ ~(count_teams <= 1)
    /\ pc = "idle"
    /\ BeginStep
    /\ host' = "called"
    /\ UNCHANGED <<steps, i, all_positions>>

\* `all_positions.append(model.get_agents_positions())`, and the next iteration
Record ==
    /\ host = "called"
    /\ pc = "idle"
    /\ all_positions' = Append(all_positions, get_agents_positions)
    /\ i' = i + 1
    /\ host' = "loop"
    /\ UNCHANGED steps
    /\ UNCHANGED modelVars

\* range(steps) is exhausted
LoopEnds ==
    /\ host = "loop"
    /\ i >= steps
    /\ host' = "done"
    /\ UNCHANGED <<steps, i, all_positions>>
    /\ UNCHANGED modelVars

HostNext ==
    \/ GameOver
    \/ CallStep
    \/ Record
    \/ LoopEnds
    \/ LookupRaises
    \/ \E a \in Ids, c \in Cells(width, height) : Move(a, c)
    \/ NoMove
    \/ SkipCellmate
    \/ MoverWins
    \/ MoverLoses
    \/ Stalemate
    \/ EndAgentStep
    \/ EndStep

SpecHost == HostInit /\ [][HostNext]_vars

-----------------------------------------------------------------------------
(* Occupancy *)

AllCells == Cells(width, height)

\* How often agent a is listed in the cells of the grid.
Occurrences(a) ==
    Cardinality({cn \in {<<c, n>> : c \in AllCells, n \in 1 .. NumAgents + 1} :
                    cn[2] <= Len(grid[cn[1]]) /\ grid[cn[1]][cn[2]] = a})

Moved(a) == pos[a] # None /\ pos[a] # <<x[a], y[a]>>

\* C1: every agent of the schedule is listed in the cell that is its position
\* (agent.pos), and no agent removed from the schedule is listed in any cell.
\* It holds in every state of a run, between the calls of step() and within
\* them, whether a call returned or raised.
C1_OccupancyConsistent ==
    /\ \A a \in Live : pos[a] \in AllCells /\ InList(a, grid[pos[a]])
    /\ \A a \in Ids \ Live : \A c \in AllCells : ~InList(a, grid[c])

\* A call of step() has returned, an agent was removed in a battle and a live
\* agent has moved.
C1_Witness ==
    /\ pc = "idle"
    /\ Live # Ids
    /\ \E a \in Live : Moved(a)


\* C2: between the calls of step(), the coordinate get_agents_positions()
\* returns for a live agent is the cell in which the grid holds it, and the
\* team returned is its team.
C2_SnapshotIsCurrent ==
    pc = "idle" =>
        \A n \in 1 .. Len(schedule) :
            get_agents_positions[n] =
                <<pos[schedule[n]][1], pos[schedule[n]][2], team[schedule[n]]>>

-----------------------------------------------------------------------------
(* Removal and strength *)

\* C4: an agent that is not in the schedule is not in it one step later, nor
\* in get_agents_positions(), whose entries are those of the schedule's agents
\* in the schedule's order; and the schedule never grows.
C4_NoResurrection ==
    [][ /\ \A a \in Ids : a \notin Live => a \notin Live'
        /\ Len(schedule') <= Len(schedule)
        /\ Len(get_agents_positions') = Len(schedule')
        /\ \A a \in Ids \ Live : \A n \in 1 .. Len(schedule') :
               get_agents_positions'[n] = <<x[schedule'[n]], y[schedule'[n]], team[schedule'[n]]>>
               /\ schedule'[n] # a ]_vars

\* Two agents have been removed, so a removed agent has stayed out while the
\* run went on to the second removal.
C4_Witness == Cardinality(Live) = NumAgents - 2 /\ pc = "idle"

\* C5: a live agent is listed exactly once in the whole grid, in the cell that
\* is its position; so a move leaves no entry in the cell it left and no cell
\* lists an agent twice.
C5_ExactlyOneCell ==
    \A a \in Live :
        /\ Occurrences(a) = 1
        /\ Cardinality({n \in 1 .. Len(grid[pos[a]]) : grid[pos[a]][n] = a}) = 1

\* An agent has just moved into a cell that holds another agent.
C5_Witness ==
    /\ pc = "battle"
    /\ j = 1
    /\ Moved(self)
    /\ Len(cellmates) >= 2

\* Agent a has won a battle against o in this step: they are opponents, one of
\* them is the mover and the other the cellmate under the loop, the winner's
\* strength exceeds the loser's health, and o leaves the schedule.
WonAgainst(a, o) ==
    /\ InBattle
    /\ {a, o} = {self, other}
    /\ a # o
    /\ team[a] # team[o]
    /\ strength[a] > health[o]
    /\ o \in Live
    /\ Live' = Live \ {o}

\* C6: in every step an agent's strength stays as it is or grows by 1, and it
\* grows only for the one agent that wins a battle in that step.
C6_MonotonicStrength ==
    [][ \A a \in Ids :
            \/ strength'[a] = strength[a]
            \/ /\ strength'[a] = strength[a] + 1
               /\ \E o \in Ids : WonAgainst(a, o)
               /\ \A b \in Ids \ {a} : strength'[b] = strength[b] ]_vars

\* An agent's strength is above every strength drawn at construction.
C6_Witness == \E a \in Live : \A s \in StrengthDraws : strength[a] > s

SingleTeam == \A a, b \in Ids : team[a] = team[b]

\* C7: when all agents created carry one team, count_teams() is 1 in every
\* state, every agent stays in the schedule and on the grid, and a step changes
\* no strength (nor team, health, x or y): only positions change.
C7_SingleTeamNoRemovals ==
    /\ [](SingleTeam => count_teams = 1 /\ Live = Ids /\ \A a \in Ids : pos[a] # None)
    /\ [][SingleTeam => /\ strength' = strength
                        /\ schedule' = schedule
                        /\ team' = team /\ health' = health
                        /\ x' = x /\ y' = y]_vars

\* All agents are of one team, and a mover that has moved is past a cellmate
\* of its own cell that is not itself.
C7_Witness ==
    /\ SingleTeam
    /\ pc = "battle"
    /\ Moved(self)
    /\ j > 1
    /\ cellmates[1] # self


-----------------------------------------------------------------------------
(* Termination *)

\* Some live agent's strength exceeds the health of a live agent of another team.
Winnable == \E a, o \in Live : team[a] # team[o] /\ strength[a] > health[o]

\* C3 as claimed, for the constructions on the grid of MaxWidth x MaxHeight
\* cells, where every agent has candidates to move to: under repeated calls of
\* step() with fair move choices, a state with at most one team among the live
\* agents is eventually reached.
C3_Terminates == (width = MaxWidth /\ height = MaxHeight) => <>(count_teams <= 1)

\* C3 as amended: in a state where no live agent's strength exceeds the health
\* of a live agent of another team, a step removes no agent and changes no
\* strength, so that such a state is followed only by such states and
\* count_teams() keeps its value for ever.
C3_NoWinNoRemoval ==
    [][~Winnable => /\ schedule' = schedule
                    /\ strength' = strength
                    /\ count_teams' = count_teams
                    /\ ~Winnable']_vars

\* Two teams are live, no battle can be won, and a mover has just met an
\* opponent in its new cell without effect.
C3_Witness ==
    /\ count_teams > 1
    /\ ~Winnable
    /\ pc = "battle"
    /\ j > 1
    /\ \E n \in 1 .. j - 1 : n <= Len(cellmates) /\ Opponent(self, cellmates[n])
    /\ Live = Ids
    /\ width = MaxWidth

-----------------------------------------------------------------------------
(* The decisive battle *)

\* C8: when two agents are live, of different teams, and the mover meets the
\* other one in its new cell with a strength above the other's health, the
\* battle leaves the mover alone in the schedule and in get_agents_positions(),
\* with its strength one higher, and count_teams() at 1; and until step() ends
\* (by returning, or by raising when the key of the removed agent comes up)
\* neither the schedule nor any strength changes again.
C8_DecisiveBattle ==
    /\ [][ ( /\ Cardinality(Live) = 2
             /\ InBattle
             /\ {self, other} = Live
             /\ team[other] # team[self]
             /\ strength[self] > health[other] )
           => ( /\ Live' = {self}
                /\ get_agents_positions' = << <<x[self], y[self], team[self]>> >>
                /\ strength' = [strength EXCEPT ![self] = strength[self] + 1]
                /\ count_teams' = 1 ) ]_vars
    /\ [][ (Cardinality(Live) = 1 /\ pc \in {"step", "battle"})
           => (schedule' = schedule /\ strength' = strength) ]_vars

\* A step() that began with two live agents has returned after its mover beat
\* the other agent: one agent is live, and it is stronger than any draw.
C8_Witness ==
    /\ pc = "idle"
    /\ Len(agent_keys) = 2
    /\ Cardinality(Live) = 1
    /\ \E a \in Live : a = cellmates[Len(cellmates)] /\ Moved(a)
                       /\ \A s \in StrengthDraws : strength[a] > s

-----------------------------------------------------------------------------
(* The run loop *)

-----------------------------------------------------------------------------
(* Reproducibility *)

\* One construction on the grid of MaxWidth x MaxHeight cells.
RefTeam == CHOOSE f \in [Ids -> teams] : TRUE
RefStrength == CHOOSE f \in [Ids -> StrengthDraws] : TRUE
RefHealth == CHOOSE f \in [Ids -> HealthDraws] : TRUE
RefX == CHOOSE f \in [Ids -> 0 .. MaxWidth - 1] : TRUE
RefY == CHOOSE f \in [Ids -> 0 .. MaxHeight - 1] : TRUE

\* C10: two constructions with the same parameters create the same agents and
\* give the same snapshots. The parameters (N, width, height, teams,
\* move_distance) carry no seed, so this says that every construction on the
\* grid of MaxWidth x MaxHeight cells creates the agents of the reference
\* construction and reports their coordinates and teams.
C10_Reproducible ==
    (width = MaxWidth /\ height = MaxHeight) =>
        /\ team = RefTeam
        /\ health = RefHealth
        /\ x = RefX
        /\ y = RefY
        /\ (pc = "idle" /\ agent_keys = <<>> => strength = RefStrength)
        /\ \A n \in 1 .. Len(schedule) :
               get_agents_positions[n] =
                   <<RefX[schedule[n]], RefY[schedule[n]], RefTeam[schedule[n]]>>

-----------------------------------------------------------------------------
(* Battles, one pass of the loop at a time *)

RECURSIVE SumOver(_, _)
SumOver(f, S) ==
    IF S = {} THEN 0
    ELSE LET a == CHOOSE b \in S : TRUE IN f[a] + SumOver(f, S \ {a})

\* The sum of all agents' strengths.
TotalStrength == SumOver(strength, Ids)

\* C11: a removal is not counted twice. The cellmate a battle is fought with
\* is in the schedule and on the grid, and so is the mover: no battle meets an
\* agent removed earlier in the tick or earlier in the scan. Every step that
\* raises the total strength raises it by 1 and removes exactly one agent, and
\* every step that removes an agent removes one and raises the total by 1, so
\* the strength gained in a run is the number of agents removed.
C11_NoDoubleCount ==
    /\ [](InBattle => /\ other \in Live /\ pos[other] # None
                      /\ self \in Live /\ pos[self] # None)
    /\ [][ /\ TotalStrength' - TotalStrength = Cardinality(Live) - Cardinality(Live')
           /\ TotalStrength' - TotalStrength \in {0, 1}
           /\ Live' \subseteq Live
           /\ \A a \in Ids : (pos[a] # None /\ pos'[a] = None) <=> (a \in Live /\ a \notin Live') ]_vars

\* An agent was removed earlier in this tick, and a later mover of the tick has
\* been through the whole list of a cell that holds another agent.
C11_Witness ==
    /\ pc = "battle"
    /\ k >= 2
    /\ j > Len(cellmates)
    /\ Len(cellmates) >= 2
    /\ \E n \in 1 .. Len(agent_keys) : agent_keys[n] \notin Live
    /\ self \in Live

\* C12: an agent removed from the schedule takes no further part, in the tick
\* of its removal or later. From the removal on it stays out of the schedule
\* and off the grid (pos None, listed in no cell) and its strength stays as it
\* is; it is never the mover of a move or of a battle nor the cellmate of a
\* battle; and when its key comes up in the tick of its removal, the lookup
\* raises and nothing else changes.
C12_RemovedTakesNoPart ==
    /\ [](\A a \in Ids \ Live : pos[a] = None /\ \A c \in AllCells : ~InList(a, grid[c]))
    /\ [](pc = "battle" => self \in Live)
    /\ [](InBattle => other \in Live)
    /\ [][ \A a \in Ids \ Live :
              /\ a \notin Live'
              /\ pos'[a] = None
              /\ strength'[a] = strength[a] ]_vars
    /\ [][ (pc = "step" /\ k <= Len(agent_keys) /\ agent_keys[k] \notin Live)
           => (pc' = "raised" /\ pos' = pos /\ grid' = grid /\ strength' = strength
               /\ schedule' = schedule) ]_vars

\* A mover is in a battle in a tick in which an agent served before it was
\* removed: the tick went on without the removed agent.
C12_Witness ==
    /\ pc = "battle"
    /\ j <= Len(cellmates)
    /\ Moved(self)
    /\ \E m \in 1 .. k - 1 : agent_keys[m] \notin Live
    /\ \E a \in Live \ {self} : strength[a] > MinHealth + DrawWidth - 1

-----------------------------------------------------------------------------
(* Move candidates *)

\* C13: at each activation the candidates are the cells within distance
\* move_distance of the cell the agent occupies at that moment, on the torus,
\* without that cell; the agent moves to one of them, and stays where it is
\* when there is none.
C13_CandidatesFromCurrentCell ==
    /\ [](pc = "step" /\ k >= 1 /\ k <= Len(agent_keys) /\ self \in Live
            => possible_moves(self) = get_neighborhood(pos[self], move_distance, width, height))
    /\ [][ pc = "step" /\ k >= 1 /\ k <= Len(agent_keys) /\ self \in Live
            => IF get_neighborhood(pos[self], move_distance, width, height) = {}
               THEN pos' = pos
               ELSE pos'[self] \in get_neighborhood(pos[self], move_distance, width, height) ]_vars

-----------------------------------------------------------------------------
(* The outcomes of one battle *)

\* The mover is at a cellmate that is live and of another team.
MeetsOpponent ==
    /\ InBattle
    /\ other # self
    /\ other \in Live
    /\ team[other] # team[self]

\* C14: when the mover meets a live cellmate of another team and the mover's
\* strength is above the cellmate's health, the cellmate leaves the grid and
\* the schedule, the mover's strength grows by exactly 1 and no other strength
\* changes, the mover stays, and the loop goes on to the next cellmate of the
\* same list with the mover's new strength.
C14_MoverWins ==
    [][ (MeetsOpponent /\ strength[self] > health[other])
        => ( /\ Live' = Live \ {other}
             /\ pos' = [pos EXCEPT ![other] = None]
             /\ \A c \in AllCells : ~InList(other, grid'[c])
             /\ strength' = [strength EXCEPT ![self] = strength[self] + 1]
             /\ pc' = "battle"
             /\ k' = k /\ agent_keys' = agent_keys
             /\ cellmates' = cellmates
             /\ j' = j + 1 ) ]_vars

\* A mover has beaten two cellmates in one activation, the second one with a
\* health that its strength at arrival did not exceed.
C14_Witness ==
    /\ pc = "battle"
    /\ j = 3
    /\ Len(cellmates) = 3
    /\ self \in Live
    /\ cellmates[1] \notin Live
    /\ cellmates[2] \notin Live
    /\ strength[self] - 2 <= health[cellmates[2]]

\* C15: when the mover meets a live cellmate of another team, the mover's
\* strength is not above the cellmate's health and the cellmate's strength is
\* above the mover's health, the mover leaves the grid and the schedule, the
\* cellmate's strength grows by exactly 1 and no other strength changes, and
\* the mover's loop is left at once: the next step belongs to the next key, so
\* no later cellmate is evaluated, removed or strengthened by this activation.
C15_MoverLoses ==
    [][ (MeetsOpponent /\ ~(strength[self] > health[other])
                       /\ strength[other] > health[self])
        => ( /\ Live' = Live \ {self}
             /\ pos' = [pos EXCEPT ![self] = None]
             /\ \A c \in AllCells : ~InList(self, grid'[c])
             /\ strength' = [strength EXCEPT ![other] = strength[other] + 1]
             /\ pc' = "step"
             /\ agent_keys' = agent_keys
             /\ k' = k + 1
             /\ cellmates' = cellmates /\ j' = j ) ]_vars

\* A mover has just lost to a cellmate, and the next entry of the cell's list
\* is a live agent of another team than the mover, never evaluated.
C15_Witness ==
    /\ pc = "step"
    /\ k >= 2
    /\ k - 1 <= Len(agent_keys)
    /\ agent_keys[k - 1] \notin Live
    /\ Len(cellmates) >= 3
    /\ cellmates[Len(cellmates)] = agent_keys[k - 1]
    /\ j <= Len(cellmates) - 2
    /\ cellmates[j] \in Live
    /\ cellmates[j + 1] \in Live
    /\ team[cellmates[j + 1]] # team[agent_keys[k - 1]]
    /\ strength[cellmates[j]] > health[agent_keys[k - 1]] + 1

\* C16: when the mover meets a live cellmate of another team and neither the
\* mover's strength is above the cellmate's health nor the cellmate's strength
\* above the mover's health (equality included on both sides), both stay in
\* the schedule and in the cell, no strength changes, and the loop goes on to
\* the next cellmate.
C16_Stalemate ==
    [][ (MeetsOpponent /\ strength[self] <= health[other]
                       /\ strength[other] <= health[self])
        => ( /\ schedule' = schedule
             /\ pos' = pos
             /\ grid' = grid
             /\ strength' = strength
             /\ pc' = "battle"
             /\ k' = k /\ agent_keys' = agent_keys
             /\ cellmates' = cellmates
             /\ j' = j + 1 ) ]_vars

\* The mover is past a live cellmate of another team whose health equals the
\* mover's strength and whose strength equals the mover's health.
C16_Witness ==
    /\ pc = "battle"
    /\ j > 1
    /\ j - 1 <= Len(cellmates)
    /\ self \in Live
    /\ cellmates[j - 1] \in Live
    /\ team[cellmates[j - 1]] # team[self]
    /\ strength[self] = health[cellmates[j - 1]]
    /\ strength[cellmates[j - 1]] = health[self]
    /\ pos[cellmates[j - 1]] = pos[self]

-----------------------------------------------------------------------------
(* The order of activation *)

\* The agents that stand in cell c: in the schedule, with pos = c.
Standing(c) == {a \in Live : pos[a] = c}

\* C17: within one step() the agents are activated one at a time, in the fixed
\* order of the keys copied at its start (the order of creation), and what an
\* activation does is in the model's state before the next key is served: the
\* move is on the grid when the mover's battles begin, the cellmates it meets
\* are exactly the agents that stand in its cell at that moment (those that
\* moved there earlier in the tick included, those removed earlier excluded),
\* and while one key is being served only its mover and the cellmate under its
\* loop change.
C17_SequentialCommit ==
    /\ [](\A m, n \in 1 .. Len(agent_keys) : m < n => agent_keys[m] < agent_keys[n])
    /\ [][ (pc = "step" \/ pc = "battle") =>
             /\ agent_keys' = agent_keys
             /\ k' \in {k, k + 1}
             /\ (k' = k + 1 => pc' = "step") ]_vars
    /\ [][ (pc = "step" /\ pc' = "battle") =>
             /\ pos'[self] \in AllCells
             /\ cellmates' = grid'[pos'[self]]
             /\ {cellmates'[n] : n \in 1 .. Len(cellmates')} = {a \in Live' : pos'[a] = pos'[self]}
             /\ \A a \in Ids \ {self} : pos'[a] = pos[a]
             /\ strength' = strength /\ schedule' = schedule ]_vars
    /\ [](pc = "battle" =>
             \A n \in j .. Len(cellmates) : cellmates[n] \in Standing(pos[self]))
    /\ [][ (\A a \in Ids :
             (pos'[a] # pos[a] \/ strength'[a] # strength[a] \/ (a \in Live /\ a \notin Live'))
             => /\ pc \in {"step", "battle"}
                /\ k >= 1 /\ k <= Len(agent_keys)
                /\ (a = self \/ (InBattle /\ a = other))) ]_vars

\* The third key of a tick is served: its mover has entered a cell where it
\* finds the first agent, which moved there and grew stronger in this tick, and
\* not the second, which was removed in this tick.
C17_Witness ==
    /\ pc = "battle"
    /\ j = 1
    /\ k = 3
    /\ Len(agent_keys) = 3
    /\ agent_keys[2] \notin Live
    /\ cellmates = <<agent_keys[1], self>>
    /\ Moved(agent_keys[1])
    /\ strength[agent_keys[1]] > MinHealth + DrawWidth - 1

-----------------------------------------------------------------------------
(* What a step leaves alone *)

\* C18: no step changes an agent's health or its team: not a move, not a battle
\* won, lost or drawn, not the removal of the agent. So in every reachable
\* state each agent's health and team are those assigned at its creation, and
\* they are among the values drawn there.
C18_HealthTeamImmutable ==
    /\ [][health' = health /\ team' = team]_vars
    /\ [](health \in [Ids -> HealthDraws] /\ team \in [Ids -> teams])

\* A step() has returned, a battle has been won and its loser removed, and two
\* live agents of different teams share a cell.
C18_Witness ==
    /\ pc = "idle"
    /\ agent_keys # <<>>
    /\ Live # Ids
    /\ \E a \in Live : strength[a] > MinHealth + DrawWidth - 1
    /\ \E a, b \in Live : team[a] # team[b] /\ pos[a] = pos[b]

\* C19: one battle removes at most one agent, and never both of its two; and
\* when the mover's strength is above the cellmate's health and the cellmate's
\* strength is above the mover's health at once, it is the cellmate that is
\* removed, and the mover stays in the schedule and on its cell and gains 1
\* strength, the cellmate gaining none.
C19_MoverPriority ==
    /\ [][Cardinality(Live \ Live') <= 1]_vars
    /\ [][ (MeetsOpponent /\ strength[self] > health[other]
                          /\ strength[other] > health[self])
           => ( /\ Live' = Live \ {other}
                /\ self \in Live'
                /\ pos'[self] = pos[self] /\ pos[self] # None
                /\ pos'[other] = None
                /\ strength' = [strength EXCEPT ![self] = strength[self] + 1] ) ]_vars

\* The mover is past a cellmate of another team that it removed and whose
\* strength is above the mover's health.
C19_Witness ==
    /\ pc = "battle"
    /\ j > 1
    /\ j - 1 <= Len(cellmates)
    /\ self \in Live
    /\ cellmates[j - 1] \notin Live
    /\ team[cellmates[j - 1]] # team[self]
    /\ strength[cellmates[j - 1]] > health[self]
    /\ strength[self] - 1 > health[cellmates[j - 1]]

\* A key of the tick is being served.
Activated == (pc = "step" \/ pc = "battle") /\ k >= 1 /\ k <= Len(agent_keys)

\* Agent b keeps its position, its strength and its place in the schedule.
Kept(b) ==
    /\ pos'[b] = pos[b]
    /\ strength'[b] = strength[b]
    /\ (b \in Live' <=> b \in Live)

\* C20: while agent A is activated, a step changes the position, strength or
\* liveness of no agent but A and, in A's battles, agents of another team that
\* stand in the cell A moved to; A's move itself changes A's position alone.
\* Agents of A's team and agents in other cells keep all three, and so does
\* every agent in steps that serve no key. An activated agent without
\* candidates returns at once: nothing but the scheduler's index changes.
C20_ActivationFrame ==
    /\ [][ (~Activated) => \A b \in Ids : Kept(b) ]_vars
    /\ [][ Activated =>
             \A b \in Ids \ {self} :
                 \/ Kept(b)
                 \/ /\ pc = "battle"
                    /\ team[b] # team[self]
                    /\ pos[self] # None
                    /\ pos[b] = pos[self] ]_vars
    /\ [][ (Activated /\ pc = "step" /\ self \in Live) =>
             /\ \A b \in Ids \ {self} : Kept(b)
             /\ strength' = strength /\ schedule' = schedule
             /\ (possible_moves(self) = {} =>
                    /\ pc' = "step" /\ k' = k + 1
                    /\ pos' = pos /\ grid' = grid
                    /\ cellmates' = cellmates /\ j' = j) ]_vars

\* A mover has been through the list of a cell that held an agent of its team
\* and one of another team: the latter is removed, the former is as it was.
C20_Witness ==
    /\ pc = "battle"
    /\ Len(cellmates) = 3
    /\ j > Len(cellmates)
    /\ self \in Live
    /\ \E t, o \in Ids \ {self} :
          /\ InList(t, cellmates) /\ InList(o, cellmates)
          /\ team[t] = team[self] /\ t \in Live /\ pos[t] = pos[self]
          /\ team[o] # team[self] /\ o \notin Live

=============================================================================
